---- MODULE Spec2Model ----
(***************************************************************************)
(* AgroMate backend: cart pricing, cart service, checkout and order        *)
(* queries, modelled as request handlers running over a shared document    *)
(* store.  A handler runs in steps that end at its awaits (reads that are   *)
(* followed by no decision of their own are taken together with the next   *)
(* await); concurrent requests occupy request slots and interleave         *)
(* between those steps.                                                    *)
(***************************************************************************)
EXTENDS Integers, Sequences, FiniteSets, TLC

(* ------------------------------ bounds --------------------------------- *)
\* largest subtotal handed to calculateDeliveryFee by the pricing runs
MaxSubtotal == 700
\* requests started in one run of the store
MaxRequests == 4
\* orders created in one run of the store
MaxOrders == 2

(* ----------------------------- universe -------------------------------- *)
Buyers == {"b1", "b2"}
Farmers == {"f1", "f2"}
Admins == {"a1"}
Users == Buyers \cup Farmers \cup Admins
ProductIds == {"p1", "p2"}
Slots == {"s1", "s2"}
Prices == {100, 300}
Quantities == {1, 2}
\* quantities below 1 that a client sends in POST /api/cart, the buyers
\* whose clients send them and the products they send them for
BadQuantities == {-1, 0}
BadClients == {"b1"}
BadItems == {"p1"}
\* stock values a farmer sends in createProduct / updateProduct
StockInputs == {0, 5}
\* order ids a client asks for in GET /api/orders/:id
OrderIds == 1..MaxOrders
\* status values an admin client sends in PATCH /api/admin/orders/:id/status
StatusInputs == {"delivered", "shipped"}
\* the users who look at product pages
Viewers == {"b1"}
\* the people who register: their emails, the roles and passwords they send
Emails == {"e1", "e2"}
RoleInputs == {"buyer", "farmer"}
Passwords == {"pw1", "pw2"}

role(u) == IF u \in Admins THEN "admin" ELSE IF u \in Farmers THEN "farmer" ELSE "buyer"

Min(a, b) == IF a < b THEN a ELSE b
Max(a, b) == IF a > b THEN a ELSE b

(* --------------------------- pricing utility --------------------------- *)
\* a fee that forgets the lower clamp
calculateDeliveryFee_noFloor(subtotal) ==
  IF subtotal >= 500 THEN 0 ELSE Min(50, subtotal \div 10)

\* Math.floor(subtotal * 0.1) on a whole-number subtotal is subtotal \div 10
calculateDeliveryFee(subtotal) ==
  IF subtotal >= 500 THEN 0
  ELSE LET fee == subtotal \div 10
       IN  Min(50, Max(10, fee))

(* ------------------------------ state ---------------------------------- *)
VARIABLES
  products,    \* Product collection: id -> document (or absent / deleted)
  carts,       \* Cart collection: buyer -> document (or no document)
  orders,      \* Order collection, in creation order; the id is the index
  pc,          \* per request slot: the await the handler is suspended at
  req,         \* per request slot: the request being served
  loc,         \* per request slot: the handler's local variables
  last,        \* the latest request dealt with and its response (status 0: none sent)
  quote,       \* per buyer: the totals of the last GET /cart still current
  nreq,        \* requests started so far
  serial,      \* TRUE: the clients send a request only after the last was answered
  subtotalIn,  \* pricing runs: the argument
  feeOut,      \* pricing runs: the result (-1 before the call)
  accounts     \* User collection: email -> document (or none)

vars == <<products, carts, orders, pc, req, loc, last, quote, nreq, serial, subtotalIn, feeOut, accounts>>
store == <<products, carts, orders>>

\* a product id no document was ever stored under / a deleted document
\* adminSet records history, not a stored path: an admin's approveProduct
\* or toggleProductStatus has written this product's status
NoProduct == [exists |-> FALSE, deleted |-> FALSE, price |-> 0, stock |-> 0,
              status |-> "none", farmer |-> "none", totalSold |-> 0,
              totalValue |-> 0, views |-> 0, adminSet |-> FALSE]
Deleted == [NoProduct EXCEPT !.deleted = TRUE]
\* n: the number of cart documents the collection holds for the user
NoCart == [exists |-> FALSE, items |-> <<>>, v |-> 0, n |-> 0]
NoQuote == [valid |-> FALSE, subtotal |-> 0, deliveryFee |-> 0, total |-> 0]
NoReq == [op |-> "none", user |-> "none", product |-> "none", quantity |-> 0, order |-> 0,
          status |-> "none", role |-> "none", password |-> "none"]
NoLoc == [items |-> <<>>, v |-> 0, orderItems |-> <<>>, subtotal |-> 0,
          deliveryFee |-> 0, total |-> 0, order |-> 0, quote |-> NoQuote,
          doc |-> NoProduct]
NoResp == [req |-> NoReq, status |-> 0, msg |-> "none", subtotal |-> 0,
           deliveryFee |-> 0, total |-> 0, order |-> 0, orders |-> {}, token |-> FALSE]

Request(op, u, p, q, id) ==
  [NoReq EXCEPT !.op = op, !.user = u, !.product = p, !.quantity = q, !.order = id]
Reply(rq, status, msg) == [NoResp EXCEPT !.req = rq, !.status = status, !.msg = msg]
\* a request whose middleware chain ended without a response and without next()
NoAnswer(rq) == [NoResp EXCEPT !.req = rq]

\* a request arrives
Arrives ==
  /\ nreq < MaxRequests
  /\ serial => \A s \in Slots : pc[s] = "idle"
  /\ nreq' = nreq + 1

\* a handler that awaits more than once is suspended in a request slot; a
\* request is given the first slot that serves none
StartSlot(s) ==
  /\ pc[s] = "idle"
  /\ \A t \in Slots : pc[t] = "idle" => ~(<<t, s>> \in {<<"s1", "s2">>})

(* --------------------------- document store ---------------------------- *)
\* populate('items.product'): each line's reference replaced by the product
\* document it names, null (exists = FALSE) when there is none
Populate(items) ==
  [i \in 1..Len(items) |->
     [product |-> items[i].product,
      doc |-> IF products[items[i].product].exists THEN products[items[i].product]
              ELSE NoProduct,
      quantity |-> items[i].quantity]]

\* the first line of a cart that references product p, 0 when none does
RECURSIVE FindLine(_, _, _)
FindLine(items, p, i) ==
  IF i > Len(items) THEN 0
  ELSE IF items[i].product = p THEN i
  ELSE FindLine(items, p, i + 1)

RECURSIVE FilterOut(_, _)
FilterOut(items, p) ==
  IF items = <<>> THEN <<>>
  ELSE IF Head(items).product = p THEN FilterOut(Tail(items), p)
  ELSE <<Head(items)>> \o FilterOut(Tail(items), p)

\* a cart summary that prices every line as one unit
CartSubtotal_perLine(pop) ==
  IF pop = <<>> THEN 0 ELSE Head(pop).doc.price

RECURSIVE CartSubtotal(_)
\* getCart's reduce: sum + (item.product.price || 0) * item.quantity
CartSubtotal(pop) ==
  IF pop = <<>> THEN 0
  ELSE Head(pop).doc.price * Head(pop).quantity + CartSubtotal(Tail(pop))

(* ---- Cart documents as mongoose saves them (cartModel is not in src) --- *)
\* a line schema without a bound on quantity
ValidQuantity_any(q) == q \in Int
\* the line schema's validator: quantity is a number >= 1
ValidQuantity(q) == q >= 1

\* save() after items.push(line): $push and $inc __v, whatever the stored
\* version is
SavePush(cart, line) ==
  [cart EXCEPT !.items = Append(@, line), !.v = @ + 1]

\* save() after items[i].quantity was assigned: $set on the position, sent
\* with the version the document was read at (no increment)
SaveQuantity(cart, i, q) ==
  [cart EXCEPT !.items[i].quantity = q]

\* a save that deletes the document once no line is left
SaveItems_deleteEmpty(cart, items) ==
  IF items = <<>> THEN NoCart ELSE [cart EXCEPT !.items = items, !.v = @ + 1]

\* save() after items was assigned a new array: $set of the whole array,
\* sent with the version the document was read at, and $inc __v
SaveItems(cart, items) ==
  [cart EXCEPT !.items = items, !.v = @ + 1]

\* an insert that does not look for the user's document: one more each time
UpsertCart_insert(cart) ==
  IF cart.exists THEN [cart EXCEPT !.n = @ + 1]
  ELSE [exists |-> TRUE, items |-> <<>>, v |-> 0, n |-> 1]

\* Cart.findOneAndUpdate({user}, {$setOnInsert: {user, items: []}}, {upsert}):
\* the user's document if there is one, else a new one; one operation on
\* the unique user key
UpsertCart(cart) ==
  IF cart.exists THEN cart
  ELSE [exists |-> TRUE, items |-> <<>>, v |-> 0, n |-> 1]

(* ----------------------------- cart service ---------------------------- *)
\* an addToCart that finds or creates the cart before it looks at the product
addToCart_upsertFirst(s, u, p, q) ==
  /\ Arrives
  /\ carts' = [carts EXCEPT ![u] = UpsertCart(@)]
  /\ LET rq == Request("addToCart", u, p, q, 0)
     IN  IF ~products[p].exists \/ products[p].status # "active"
         THEN /\ last' = Reply(rq, 404, "Product not found or inactive")
              /\ UNCHANGED <<pc, req, loc>>
         ELSE /\ StartSlot(s)
              /\ req' = [req EXCEPT ![s] = rq]
              /\ loc' = [loc EXCEPT ![s] = [NoLoc EXCEPT !.items = carts'[u].items,
                                                         !.v = carts'[u].v]]
              /\ pc' = [pc EXCEPT ![s] = "add_save"]
              /\ UNCHANGED last
  /\ UNCHANGED <<products, orders, quote, serial, subtotalIn, feeOut, accounts>>

\* POST /api/cart, up to the upsert: 404 for a product that is missing or
\* not active, else the cart is found or created and read
addToCart(s, u, p, q) ==
  /\ Arrives
  /\ LET rq == Request("addToCart", u, p, q, 0)
     IN  IF ~products[p].exists \/ products[p].status # "active"
         THEN /\ last' = Reply(rq, 404, "Product not found or inactive")
              /\ UNCHANGED <<carts, pc, req, loc>>
         ELSE /\ StartSlot(s)
              /\ carts' = [carts EXCEPT ![u] = UpsertCart(@)]
              /\ req' = [req EXCEPT ![s] = rq]
              /\ loc' = [loc EXCEPT ![s] = [NoLoc EXCEPT !.items = carts'[u].items,
                                                         !.v = carts'[u].v]]
              /\ pc' = [pc EXCEPT ![s] = "add_save"]
              /\ UNCHANGED last
  /\ UNCHANGED <<products, orders, quote, serial, subtotalIn, feeOut, accounts>>

\* the handler of slot s has sent its response
Finish(s) ==
  /\ pc' = [pc EXCEPT ![s] = "idle"]
  /\ req' = [req EXCEPT ![s] = NoReq]
  /\ loc' = [loc EXCEPT ![s] = NoLoc]

\* POST /api/cart, the save: the quantity of the line found grows, or a
\* line is pushed
addToCartSave(s) ==
  /\ pc[s] = "add_save"
  /\ LET u == req[s].user
         p == req[s].product
         q == req[s].quantity
         i == FindLine(loc[s].items, p, 1)
         newQ == IF i = 0 THEN q ELSE loc[s].items[i].quantity + q
         stale == i # 0 /\ carts[u].v # loc[s].v
     IN  IF ~ValidQuantity(newQ) \/ stale
         THEN /\ last' = Reply(req[s], 500, "Server error")
              /\ UNCHANGED <<carts, quote>>
         ELSE /\ carts' = [carts EXCEPT ![u] =
                             IF i = 0 THEN SavePush(@, [product |-> p, quantity |-> q])
                             ELSE SaveQuantity(@, i, newQ)]
              /\ quote' = [quote EXCEPT ![u] = NoQuote]
              /\ last' = Reply(req[s], 200, "cart")
  /\ Finish(s)
  /\ UNCHANGED <<products, orders, nreq, serial, subtotalIn, feeOut, accounts>>

\* GET /api/cart
getCart(u) ==
  /\ Arrives
  /\ LET rq == Request("getCart", u, "none", 0, 0)
         pop == Populate(carts[u].items)
         subtotal == CartSubtotal(pop)
         deliveryFee == calculateDeliveryFee(subtotal)
         total == subtotal + deliveryFee
     IN  IF ~carts[u].exists
         THEN /\ last' = Reply(rq, 200, "cart")
              /\ quote' = [quote EXCEPT ![u] = [NoQuote EXCEPT !.valid = TRUE]]
         ELSE IF \E i \in 1..Len(pop) : ~pop[i].doc.exists
         THEN \* item.product is null: reading .price throws
              /\ last' = Reply(rq, 500, "Server error")
              /\ UNCHANGED quote
         ELSE /\ last' = [Reply(rq, 200, "cart") EXCEPT !.subtotal = subtotal,
                            !.deliveryFee = deliveryFee, !.total = total]
              /\ quote' = [quote EXCEPT ![u] =
                            [valid |-> TRUE, subtotal |-> subtotal,
                             deliveryFee |-> deliveryFee, total |-> total]]
  /\ UNCHANGED <<store, pc, req, loc, serial, subtotalIn, feeOut, accounts>>

\* DELETE /api/cart/:productId, up to the read of the cart
removeFromCart(s, u, p) ==
  /\ Arrives
  /\ LET rq == Request("removeFromCart", u, p, 0, 0)
     IN  IF ~carts[u].exists
         THEN /\ last' = Reply(rq, 404, "Cart not found")
              /\ UNCHANGED <<pc, req, loc>>
         ELSE /\ StartSlot(s)
              /\ req' = [req EXCEPT ![s] = rq]
              /\ loc' = [loc EXCEPT ![s] = [NoLoc EXCEPT !.items = carts[u].items,
                                                         !.v = carts[u].v]]
              /\ pc' = [pc EXCEPT ![s] = "rm_save"]
              /\ UNCHANGED last
  /\ UNCHANGED <<store, quote, serial, subtotalIn, feeOut, accounts>>

\* DELETE /api/cart/:productId, the save of the filtered lines
removeFromCartSave(s) ==
  /\ pc[s] = "rm_save"
  /\ LET u == req[s].user
         kept == FilterOut(loc[s].items, req[s].product)
     IN  IF kept = loc[s].items
         THEN \* nothing was modified: save() sends no update
              /\ last' = Reply(req[s], 200, "cart")
              /\ UNCHANGED <<carts, quote>>
         ELSE IF carts[u].v # loc[s].v
         THEN /\ last' = Reply(req[s], 500, "Server error")
              /\ UNCHANGED <<carts, quote>>
         ELSE /\ carts' = [carts EXCEPT ![u] = SaveItems(@, kept)]
              /\ quote' = [quote EXCEPT ![u] = NoQuote]
              /\ last' = Reply(req[s], 200, "cart")
  /\ Finish(s)
  /\ UNCHANGED <<products, orders, nreq, serial, subtotalIn, feeOut, accounts>>

(* ------------------------------ checkout ------------------------------- *)
\* the validation of one populated cart line (orderController.ts 97-104)
LineUnavailable(l) == ~l.doc.exists \/ l.doc.status # "active"
\* a stock test that also refuses a line that takes the last unit
LineInsufficient_strict(l) == l.doc.stock <= l.quantity
LineInsufficient(l) == l.doc.stock < l.quantity

\* a validation that looks at the first line only
FirstBadLine_firstOnly(pop, i) ==
  IF i = 1 /\ i <= Len(pop) /\ (LineUnavailable(pop[i]) \/ LineInsufficient(pop[i]))
  THEN 1 ELSE 0

RECURSIVE FirstBadLine(_, _)
\* the for loop's early return: the first line that fails, 0 when all pass
FirstBadLine(pop, i) ==
  IF i > Len(pop) THEN 0
  ELSE IF LineUnavailable(pop[i]) \/ LineInsufficient(pop[i]) THEN i
  ELSE FirstBadLine(pop, i + 1)

\* order lines that take the quantity as the price
OrderItems_noPrice(pop) ==
  [i \in 1..Len(pop) |->
     [product |-> pop[i].product, quantity |-> pop[i].quantity, price |-> pop[i].quantity]]

\* orderItems.push({ product, quantity, price: product.price })
OrderItems(pop) ==
  [i \in 1..Len(pop) |->
     [product |-> pop[i].product, quantity |-> pop[i].quantity, price |-> pop[i].doc.price]]

RECURSIVE OrderSubtotal(_)
\* subtotal += product.price * item.quantity
OrderSubtotal(pop) ==
  IF pop = <<>> THEN 0
  ELSE Head(pop).doc.price * Head(pop).quantity + OrderSubtotal(Tail(pop))

\* an empty-cart test that only looks for the document
CartIsEmpty_missingOnly(cart) == ~cart.exists

\* !cart || cart.items.length === 0
CartIsEmpty(cart) == ~cart.exists \/ Len(cart.items) = 0

\* a stock update that sets the status and forgets the $inc
BulkWrite_noInc(prods, pop, i) ==
  [p \in DOMAIN prods |->
     IF \E k \in 1..Len(pop) : pop[k].product = p /\ prods[p].exists
     THEN [prods[p] EXCEPT !.status = "active"] ELSE prods[p]]

RECURSIVE BulkWrite(_, _, _)
\* Product.bulkWrite: one updateOne per cart line, in order; a filter that
\* matches no document updates nothing
BulkWrite(prods, pop, i) ==
  IF i > Len(pop) THEN prods
  ELSE LET l == pop[i]
           p == l.product
       IN  IF ~prods[p].exists THEN BulkWrite(prods, pop, i + 1)
           ELSE BulkWrite(
                  [prods EXCEPT ![p].stock = @ - l.quantity,
                                ![p].totalSold = @ + l.quantity,
                                ![p].status = IF l.doc.stock - l.quantity <= 0
                                              THEN "out_of_stock" ELSE "active"],
                  pop, i + 1)

\* checkouts that passed validation and have not created their order yet
Creating == {t \in Slots : pc[t] = "co_create"}

\* POST /api/orders/checkout, up to Order.create
checkout(s, u) ==
  /\ Arrives
  /\ LET rq == Request("checkout", u, "none", 0, 0)
         cart == carts[u]
         pop == Populate(cart.items)
         bad == FirstBadLine(pop, 1)
         subtotal == OrderSubtotal(pop)
         deliveryFee == calculateDeliveryFee(subtotal)
     IN  IF CartIsEmpty(cart)
         THEN /\ last' = Reply(rq, 400, "Cart is empty")
              /\ UNCHANGED <<pc, req, loc>>
         ELSE IF bad # 0
         THEN /\ last' = Reply(rq, 400, IF LineUnavailable(pop[bad]) THEN "not available"
                                        ELSE "Insufficient stock")
              /\ UNCHANGED <<pc, req, loc>>
         ELSE /\ StartSlot(s)
              /\ Len(orders) + Cardinality(Creating) < MaxOrders
              /\ req' = [req EXCEPT ![s] = rq]
              /\ loc' = [loc EXCEPT ![s] =
                           [NoLoc EXCEPT !.items = pop, !.v = cart.v,
                              !.orderItems = OrderItems(pop), !.subtotal = subtotal,
                              !.deliveryFee = deliveryFee,
                              !.total = subtotal + deliveryFee, !.quote = quote[u]]]
              /\ pc' = [pc EXCEPT ![s] = "co_create"]
              /\ UNCHANGED last
  /\ UNCHANGED <<store, quote, serial, subtotalIn, feeOut, accounts>>

\* Order.create: one more document; status takes the schema's default
CreateOrder(os, o) == Append(os, [o EXCEPT !.status = "placed"])

\* the order document checkout builds (orderController.ts 113-119)
checkoutCreate(s) ==
  /\ pc[s] = "co_create"
  /\ orders' = CreateOrder(orders, [user |-> req[s].user, items |-> loc[s].orderItems,
                                     subtotal |-> loc[s].subtotal,
                                     deliveryFee |-> loc[s].deliveryFee,
                                     total |-> loc[s].total, status |-> "none"])
  /\ loc' = [loc EXCEPT ![s].order = Len(orders) + 1]
  /\ pc' = [pc EXCEPT ![s] = "co_bulk"]
  /\ UNCHANGED <<products, carts, req, last, quote, nreq, serial, subtotalIn, feeOut, accounts>>

\* Product.bulkWrite(bulkOps)
checkoutBulkWrite(s) ==
  /\ pc[s] = "co_bulk"
  /\ products' = BulkWrite(products, loc[s].items, 1)
  /\ pc' = [pc EXCEPT ![s] = "co_clear"]
  /\ UNCHANGED <<carts, orders, req, loc, last, quote, nreq, serial, subtotalIn, feeOut, accounts>>

\* cart.items = []; cart.save(); 201 with the order
checkoutClear(s) ==
  /\ pc[s] = "co_clear"
  /\ LET u == req[s].user
     IN  IF carts[u].v # loc[s].v
         THEN /\ last' = Reply(req[s], 500, "Server error")
              /\ UNCHANGED <<carts, quote>>
         ELSE /\ carts' = [carts EXCEPT ![u] = SaveItems(@, <<>>)]
              /\ quote' = [quote EXCEPT ![u] = NoQuote]
              /\ last' = [Reply(req[s], 201, "order") EXCEPT !.order = loc[s].order,
                            !.subtotal = loc[s].subtotal,
                            !.deliveryFee = loc[s].deliveryFee,
                            !.total = loc[s].total]
  /\ Finish(s)
  /\ UNCHANGED <<products, orders, nreq, serial, subtotalIn, feeOut, accounts>>

\* a failure handler that takes the order back
checkoutWriteError_compensate(s) ==
  /\ pc[s] \in {"co_create", "co_bulk"}
  /\ last' = Reply(req[s], 500, "Server error")
  /\ orders' = IF pc[s] = "co_bulk" THEN SubSeq(orders, 1, loc[s].order - 1) ELSE orders
  /\ Finish(s)
  /\ UNCHANGED <<products, carts, quote, nreq, serial, subtotalIn, feeOut, accounts>>

\* Order.create or Product.bulkWrite rejects (a write error of the store):
\* the catch block answers 500 and the handler ends where it stands
checkoutWriteError(s) ==
  /\ pc[s] \in {"co_create", "co_bulk"}
  /\ last' = Reply(req[s], 500, "Server error")
  /\ Finish(s)
  /\ UNCHANGED <<store, quote, nreq, serial, subtotalIn, feeOut, accounts>>

(* ----------------------------- order queries --------------------------- *)
\* ObjectId.prototype.toString: the id's hex string
ObjectIdToString(id) == <<"hex", id>>
\* Document.prototype.toString: the rendering of the document's fields
DocumentToString(doc) == <<"inspect", doc>>
\* populate('items.product user', '-password'): order.user is the user's document
PopulatedUser(u) == [_id |-> u, role |-> role(u)]

\* GET /api/orders/:id
getOrderById(u, id) ==
  /\ Arrives
  /\ LET rq == Request("getOrderById", u, "none", 0, id)
     IN  last' =
           IF id > Len(orders) THEN Reply(rq, 404, "Order not found")
           ELSE IF /\ DocumentToString(PopulatedUser(orders[id].user)) # ObjectIdToString(u)
                   /\ role(u) # "admin"
           THEN Reply(rq, 403, "Not authorized to view this order")
           ELSE [Reply(rq, 200, "order") EXCEPT !.order = id]
  /\ UNCHANGED <<store, pc, req, loc, quote, serial, subtotalIn, feeOut, accounts>>

\* populate({ path: 'items.product', match: { farmer } }): a line's product
\* is the document when it exists and belongs to the farmer, null otherwise
PopulateMatch(items, farmer) ==
  [k \in 1..Len(items) |->
     LET d == products[items[k].product]
     IN  IF d.exists /\ d.farmer = farmer THEN d ELSE NoProduct]

\* a filter that keeps every order
FilteredOrders_all(farmer) == 1..Len(orders)

\* orders.filter(order => order.items.some(prod && prod.farmer &&
\* prod.farmer.equals(user._id)))
FilteredOrders(farmer) ==
  {i \in 1..Len(orders) :
     \E k \in 1..Len(orders[i].items) :
       LET prod == PopulateMatch(orders[i].items, farmer)[k]
       IN  prod.exists /\ prod.farmer = farmer}

\* GET /api/orders/farmer
getFarmerOrders(u) ==
  /\ Arrives
  /\ last' = [Reply(Request("getFarmerOrders", u, "none", 0, 0), 200, "orders")
               EXCEPT !.orders = FilteredOrders(u)]
  /\ UNCHANGED <<store, pc, req, loc, quote, serial, subtotalIn, feeOut, accounts>>

(* ---------------------------- admin orders ----------------------------- *)
\* the router's inline middleware returns before it reaches next()
InlineCallsNext == FALSE

\* a chain that lets every authenticated user through to the handler
AdminOrderChain_open(u) == "handler"

\* router.use(protect, inline middleware, restrictTo('admin')): where a
\* request of an authenticated user ends
AdminOrderChain(u) ==
  IF ~InlineCallsNext THEN "hang"
  ELSE IF role(u) # "admin" THEN "forbidden"
  ELSE "handler"

\* orderSchema.status: enum
OrderStatusEnum == {"placed", "shipped", "delivered", "cancelled"}
\* updateOrderStatus: allowedStatuses
allowedStatuses == {"processing", "in_transit", "delivered", "cancelled"}

\* PATCH /api/admin/orders/:id/status
updateOrderStatus(u, id, status) ==
  /\ Arrives
  /\ LET rq == [Request("updateOrderStatus", u, "none", 0, id) EXCEPT !.status = status]
         chain == AdminOrderChain(u)
     IN  IF chain = "hang"
         THEN \* no response is sent and next() is not called: no code runs for
              \* the request any more, it stays unanswered (status 0)
              /\ last' = NoAnswer(rq)
              /\ UNCHANGED orders
         ELSE /\ IF chain = "forbidden"
                 THEN last' = Reply(rq, 403, "You do not have permission") /\ UNCHANGED orders
                 ELSE IF status \notin allowedStatuses
                 THEN last' = Reply(rq, 400, "Invalid status") /\ UNCHANGED orders
                 ELSE IF id > Len(orders)
                 THEN last' = Reply(rq, 404, "Order not found") /\ UNCHANGED orders
                 ELSE IF status \notin OrderStatusEnum
                 THEN \* order.save() fails the enum validation
                      last' = Reply(rq, 500, "Failed to update order") /\ UNCHANGED orders
                 ELSE /\ orders' = [orders EXCEPT ![id].status = status]
                      /\ last' = [Reply(rq, 200, "order") EXCEPT !.order = id]
  /\ UNCHANGED <<products, carts, pc, req, loc, quote, serial, subtotalIn, feeOut, accounts>>

\* GET /api/admin/orders: every order (no query filter)
getAllOrders(u) ==
  /\ Arrives
  /\ LET rq == Request("getAllOrders", u, "none", 0, 0)
         chain == AdminOrderChain(u)
     IN  last' = IF chain = "hang" THEN NoAnswer(rq)
                 ELSE IF chain = "forbidden" THEN Reply(rq, 403, "You do not have permission")
                 ELSE [Reply(rq, 200, "orders") EXCEPT !.orders = 1..Len(orders)]
  /\ UNCHANGED <<store, pc, req, loc, quote, serial, subtotalIn, feeOut, accounts>>

\* GET /api/admin/orders/export: one CSV row per order
exportOrders(u) ==
  /\ Arrives
  /\ LET rq == Request("exportOrders", u, "none", 0, 0)
         chain == AdminOrderChain(u)
     IN  last' = IF chain = "hang" THEN NoAnswer(rq)
                 ELSE IF chain = "forbidden" THEN Reply(rq, 403, "You do not have permission")
                 ELSE [Reply(rq, 200, "csv") EXCEPT !.orders = 1..Len(orders)]
  /\ UNCHANGED <<store, pc, req, loc, quote, serial, subtotalIn, feeOut, accounts>>

(* ------------------------------ catalogue ------------------------------ *)
\* productSchema.pre('save'): the status follows the stock
PreSaveStatus(status, stock) ==
  IF stock <= 0 THEN "out_of_stock"
  ELSE IF status = "out_of_stock" /\ stock > 0 THEN "active"
  ELSE status

\* productSchema.pre('save') on a document: totalValue is recomputed, then
\* the status follows the stock
PreSave(doc) ==
  [doc EXCEPT !.totalValue = doc.price * doc.stock,
              !.status = PreSaveStatus(doc.status, doc.stock)]

\* POST /api/products
createProduct(u, p, price, stock) ==
  /\ Arrives
  /\ ~products[p].exists /\ ~products[p].deleted
  /\ products' = [products EXCEPT ![p] =
       PreSave([exists |-> TRUE, deleted |-> FALSE, price |-> price, stock |-> stock,
                status |-> "inactive", farmer |-> u, totalSold |-> 0,
                totalValue |-> 0, views |-> 0, adminSet |-> FALSE])]
  /\ last' = Reply(Request("createProduct", u, p, 0, 0), 201, "product")
  /\ UNCHANGED <<carts, orders, pc, req, loc, quote, serial, subtotalIn, feeOut, accounts>>

\* GET /api/products/:id, up to the read of the product
getProduct(s, u, p) ==
  /\ Arrives
  /\ LET rq == Request("getProduct", u, p, 0, 0)
     IN  IF ~products[p].exists
         THEN /\ last' = Reply(rq, 404, "Product not found")
              /\ UNCHANGED <<pc, req, loc>>
         ELSE /\ StartSlot(s)
              /\ req' = [req EXCEPT ![s] = rq]
              /\ loc' = [loc EXCEPT ![s] = [NoLoc EXCEPT !.doc = products[p]]]
              /\ pc' = [pc EXCEPT ![s] = "gp_save"]
              /\ UNCHANGED last
  /\ UNCHANGED <<store, quote, serial, subtotalIn, feeOut, accounts>>

\* the document's validation before a save: stock has min 0
ValidProduct(doc) == doc.stock >= 0

\* GET /api/products/:id, product.views += 1 and product.save(): the hook
\* runs on the document as read, and the update sets the paths that differ
\* from what was read
getProductSave(s) ==
  /\ pc[s] = "gp_save"
  /\ LET p == req[s].product
         read == loc[s].doc
         doc == PreSave([read EXCEPT !.views = @ + 1])
     IN  IF ~ValidProduct(read) \/ ~products[p].exists
         THEN /\ last' = Reply(req[s], 500, "Failed to fetch product")
              /\ UNCHANGED products
         ELSE /\ products' = [products EXCEPT
                   ![p].views = doc.views,
                   ![p].totalValue = IF doc.totalValue # read.totalValue
                                     THEN doc.totalValue ELSE @,
                   ![p].status = IF doc.status # read.status THEN doc.status ELSE @]
              /\ last' = Reply(req[s], 200, "product")
  /\ Finish(s)
  /\ UNCHANGED <<carts, orders, quote, nreq, serial, subtotalIn, feeOut, accounts>>

\* the status updateProduct adds to the update when the body carries a stock
UpdateStatus(status, newStock) ==
  IF newStock <= 0 THEN "out_of_stock"
  ELSE IF status = "out_of_stock" /\ newStock > 0 THEN "active"
  ELSE status

\* PATCH /api/products/:id with a body of one field, price or stock
updateProduct(u, p, field, value) ==
  /\ Arrives
  /\ LET rq == Request("updateProduct", u, p, 0, 0)
     IN  IF ~products[p].exists
         THEN /\ last' = Reply(rq, 404, "Product not found")
              /\ UNCHANGED <<products, quote>>
         ELSE IF ObjectIdToString(products[p].farmer) # ObjectIdToString(u)
         THEN /\ last' = Reply(rq, 403, "Not authorized to update this product")
              /\ UNCHANGED <<products, quote>>
         ELSE /\ products' = [products EXCEPT ![p] =
                   IF field = "price" THEN [@ EXCEPT !.price = value]
                   ELSE [@ EXCEPT !.stock = value, !.status = UpdateStatus(@, value)]]
              /\ quote' = IF field = "price" /\ value # products[p].price
                          THEN [b \in Buyers |-> NoQuote] ELSE quote
              /\ last' = Reply(rq, 200, "product")
  /\ UNCHANGED <<carts, orders, pc, req, loc, serial, subtotalIn, feeOut, accounts>>

\* a delete that cascades: the deleted product's lines are taken out of the orders
deleteProduct_cascade(u, p) ==
  /\ Arrives
  /\ LET rq == Request("deleteProduct", u, p, 0, 0)
     IN  IF ~products[p].exists
         THEN /\ last' = Reply(rq, 404, "Product not found")
              /\ UNCHANGED <<products, orders, quote>>
         ELSE IF ObjectIdToString(products[p].farmer) # ObjectIdToString(u)
         THEN /\ last' = Reply(rq, 403, "Not authorized to delete this product")
              /\ UNCHANGED <<products, orders, quote>>
         ELSE /\ products' = [products EXCEPT ![p] = Deleted]
              /\ orders' = [i \in 1..Len(orders) |->
                              [orders[i] EXCEPT !.items = FilterOut(@, p)]]
              /\ quote' = [b \in Buyers |-> NoQuote]
              /\ last' = Reply(rq, 204, "none")
  /\ UNCHANGED <<carts, pc, req, loc, serial, subtotalIn, feeOut, accounts>>

\* DELETE /api/products/:id
deleteProduct(u, p) ==
  /\ Arrives
  /\ LET rq == Request("deleteProduct", u, p, 0, 0)
     IN  IF ~products[p].exists
         THEN /\ last' = Reply(rq, 404, "Product not found")
              /\ UNCHANGED <<products, quote>>
         ELSE IF ObjectIdToString(products[p].farmer) # ObjectIdToString(u)
         THEN /\ last' = Reply(rq, 403, "Not authorized to delete this product")
              /\ UNCHANGED <<products, quote>>
         ELSE /\ products' = [products EXCEPT ![p] = Deleted]
              /\ quote' = [b \in Buyers |-> NoQuote]
              /\ last' = Reply(rq, 204, "none")
  /\ UNCHANGED <<carts, orders, pc, req, loc, serial, subtotalIn, feeOut, accounts>>

\* PATCH /api/products/:id/approve
approveProduct(u, p) ==
  /\ Arrives
  /\ LET rq == Request("approveProduct", u, p, 0, 0)
     IN  IF ~products[p].exists
         THEN /\ last' = Reply(rq, 404, "Product not found")
              /\ UNCHANGED products
         ELSE /\ products' = [products EXCEPT ![p].status = "active",
                                              ![p].adminSet = TRUE]
              /\ last' = Reply(rq, 200, "product")
  /\ UNCHANGED <<carts, orders, pc, req, loc, quote, serial, subtotalIn, feeOut, accounts>>

\* PATCH /api/products/:id/toggle-status
toggleProductStatus(u, p) ==
  /\ Arrives
  /\ LET rq == Request("toggleProductStatus", u, p, 0, 0)
     IN  IF ~products[p].exists
         THEN /\ last' = Reply(rq, 404, "Product not found")
              /\ UNCHANGED products
         ELSE /\ products' = [products EXCEPT ![p].status =
                                IF @ = "active" THEN "inactive" ELSE "active",
                                              ![p].adminSet = TRUE]
              /\ last' = Reply(rq, 200, "product")
  /\ UNCHANGED <<carts, orders, pc, req, loc, quote, serial, subtotalIn, feeOut, accounts>>

(* ------------------------------ accounts ------------------------------- *)
\* token records history, not a stored path: sendToken has sent a JWT for
\* this account to its client
NoAccount == [exists |-> FALSE, role |-> "none", isApproved |-> FALSE,
              password |-> <<>>, token |-> FALSE]

\* userSchema.pre('save'): the stored password is a hash
Hash(password) == <<"bcrypt", password>>
\* user.comparePassword(candidate)
comparePassword(account, candidate) == account.password = Hash(candidate)

\* a request of the auth routes: email, role and password of the body
AuthRequest(op, e, r, pw) ==
  [NoReq EXCEPT !.op = op, !.user = e, !.role = r, !.password = pw]
\* sendToken(user, statusCode, res)
sendToken(rq, statusCode) == [Reply(rq, statusCode, "success") EXCEPT !.token = TRUE]

\* POST /api/auth/register
register(e, r, pw) ==
  /\ Arrives
  /\ LET rq == AuthRequest("register", e, r, pw)
     IN  IF accounts[e].exists
         THEN /\ last' = Reply(rq, 400, "User already exists with this email")
              /\ UNCHANGED accounts
         ELSE /\ accounts' = [accounts EXCEPT ![e] =
                   [exists |-> TRUE, role |-> r, isApproved |-> (r # "farmer"),
                    password |-> Hash(pw), token |-> TRUE]]
              /\ last' = sendToken(rq, 201)
  /\ UNCHANGED <<store, pc, req, loc, quote, serial, subtotalIn, feeOut>>

\* POST /api/auth/login
login(e, pw) ==
  /\ Arrives
  /\ LET rq == AuthRequest("login", e, "none", pw)
         user == accounts[e]
     IN  IF user.exists /\ user.role = "farmer" /\ ~user.isApproved
         THEN /\ last' = Reply(rq, 401, "Your account is pending admin approval")
              /\ UNCHANGED accounts
         ELSE IF ~user.exists \/ ~comparePassword(user, pw)
         THEN /\ last' = Reply(rq, 401, "Incorrect email or password")
              /\ UNCHANGED accounts
         ELSE /\ accounts' = [accounts EXCEPT ![e].token = TRUE]
              /\ last' = sendToken(rq, 200)
  /\ UNCHANGED <<store, pc, req, loc, quote, serial, subtotalIn, feeOut>>

\* the admin's approval of a farmer account
approveFarmer(e) ==
  /\ Arrives
  /\ LET rq == AuthRequest("approveFarmer", e, "none", "none")
     IN  IF ~accounts[e].exists \/ accounts[e].role # "farmer"
         THEN /\ last' = Reply(rq, 404, "Farmer not found")
              /\ UNCHANGED accounts
         ELSE /\ accounts' = [accounts EXCEPT ![e].isApproved = TRUE]
              /\ last' = Reply(rq, 200, "success")
  /\ UNCHANGED <<store, pc, req, loc, quote, serial, subtotalIn, feeOut>>

\* protect, ensureAuthenticated and restrictTo('farmer') for the client of
\* account e, which sends the token it was given, if any
FarmerChain(e) ==
  IF ~accounts[e].token \/ ~accounts[e].exists THEN 401
  ELSE IF accounts[e].role # "farmer" THEN 403
  ELSE 200

\* GET /api/products/farmer, a route for farmers only
getFarmerProducts(e) ==
  /\ Arrives
  /\ last' = Reply(AuthRequest("getFarmerProducts", e, "none", "none"), FarmerChain(e),
                   IF FarmerChain(e) = 200 THEN "products" ELSE "error")
  /\ UNCHANGED <<store, pc, req, loc, quote, serial, subtotalIn, feeOut, accounts>>

(* --------------------------- specifications ---------------------------- *)
\* the catalogue the runs start from: p1 is on sale; p2 is on sale with one
\* unit left, or was never created
SeedP1 == [exists |-> TRUE, deleted |-> FALSE, price |-> 100, stock |-> 5,
           status |-> "active", farmer |-> "f1", totalSold |-> 0,
           totalValue |-> 500, views |-> 0, adminSet |-> TRUE]
SeedP2 == [exists |-> TRUE, deleted |-> FALSE, price |-> 300, stock |-> 1,
           status |-> "active", farmer |-> "f2", totalSold |-> 0,
           totalValue |-> 300, views |-> 0, adminSet |-> TRUE]

InitStore ==
  /\ products \in {[p \in ProductIds |-> IF p = "p1" THEN SeedP1 ELSE x] : x \in {SeedP2, NoProduct}}
  /\ carts = [b \in Buyers |-> NoCart]
  /\ orders = <<>>
  /\ pc = [s \in Slots |-> "idle"]
  /\ req = [s \in Slots |-> NoReq]
  /\ loc = [s \in Slots |-> NoLoc]
  /\ last = NoResp
  /\ quote = [b \in Buyers |-> NoQuote]
  /\ nreq = 0
  /\ accounts = [e \in Emails |-> NoAccount]

Init == InitStore /\ serial = FALSE /\ subtotalIn = 0 /\ feeOut = -1

SeqInit == InitStore /\ serial = TRUE /\ subtotalIn = 0 /\ feeOut = -1

Next ==
  \/ \E s \in Slots, u \in Buyers, p \in ProductIds, q \in Quantities : addToCart(s, u, p, q)
  \/ \E s \in Slots, u \in BadClients, p \in BadItems, q \in BadQuantities :
       addToCart(s, u, p, q)
  \/ \E s \in Slots : addToCartSave(s)
  \/ \E u \in Buyers : getCart(u)
  \/ \E s \in Slots, u \in Buyers, p \in ProductIds : removeFromCart(s, u, p)
  \/ \E s \in Slots : removeFromCartSave(s)
  \/ \E s \in Slots, u \in Buyers : checkout(s, u)
  \/ \E s \in Slots : checkoutCreate(s)
  \/ \E s \in Slots : checkoutBulkWrite(s)
  \/ \E s \in Slots : checkoutClear(s)
  \/ \E s \in Slots : checkoutWriteError(s)
  \/ \E u \in Users, id \in OrderIds : getOrderById(u, id)
  \/ \E u \in Farmers : getFarmerOrders(u)
  \/ \E u \in Admins \cup Viewers, id \in OrderIds, status \in StatusInputs :
       updateOrderStatus(u, id, status)
  \/ \E u \in Admins : getAllOrders(u)
  \/ \E u \in Admins : exportOrders(u)
  \/ \E s \in Slots, u \in Viewers, p \in ProductIds : getProduct(s, u, p)
  \/ \E s \in Slots : getProductSave(s)
  \/ \E u \in Farmers, p \in ProductIds, price \in Prices, stock \in StockInputs :
       createProduct(u, p, price, stock)
  \/ \E u \in Farmers, p \in ProductIds, price \in Prices : updateProduct(u, p, "price", price)
  \/ \E u \in Farmers, p \in ProductIds, stock \in StockInputs : updateProduct(u, p, "stock", stock)
  \/ \E u \in Farmers, p \in ProductIds : deleteProduct(u, p)
  \/ \E u \in Admins, p \in ProductIds : approveProduct(u, p)
  \/ \E u \in Admins, p \in ProductIds : toggleProductStatus(u, p)

Spec == Init /\ [][Next]_vars

\* a handler that is suspended at an await goes on when the awaited
\* operation has ended; no fairness for arrivals and for write errors
Continue ==
  \E s \in Slots :
    \/ addToCartSave(s) \/ removeFromCartSave(s) \/ getProductSave(s)
    \/ checkoutCreate(s) \/ checkoutBulkWrite(s) \/ checkoutClear(s)

LiveSpec == Spec /\ WF_vars(Continue)

\* one request at a time: none arrives while a handler is suspended
SeqSpec == SeqInit /\ [][Next]_vars

\* the pricing utility alone: any subtotal, one call
FeeInit ==
  /\ InitStore
  /\ serial = TRUE
  /\ subtotalIn \in 0..MaxSubtotal
  /\ feeOut = -1

FeeCall ==
  /\ feeOut = -1
  /\ feeOut' = calculateDeliveryFee(subtotalIn)
  /\ UNCHANGED <<products, carts, orders, pc, req, loc, last, quote, nreq, serial, subtotalIn, accounts>>

FeeSpec == FeeInit /\ [][FeeCall]_vars

\* the auth routes and a farmer-only route, one request at a time
AuthNext ==
  \/ \E e \in Emails, r \in RoleInputs, pw \in Passwords : register(e, r, pw)
  \/ \E e \in Emails, pw \in Passwords : login(e, pw)
  \/ \E e \in Emails : approveFarmer(e)
  \/ \E e \in Emails : getFarmerProducts(e)

AuthSpec == SeqInit /\ [][AuthNext]_vars

(* ------------------------------- claims -------------------------------- *)
\* the fee policy, stated by cases
ClampedFee(subtotal) ==
  LET tenth == subtotal \div 10
  IN  IF tenth < 10 THEN 10 ELSE IF tenth > 50 THEN 50 ELSE tenth

RECURSIVE LineTotal(_, _)
\* the sum of price * quantity over lines [price, quantity]
LineTotal(lines, i) ==
  IF i > Len(lines) THEN 0
  ELSE lines[i].price * lines[i].quantity + LineTotal(lines, i + 1)

\* a cart's lines at the products' current prices
LiveLines(items) ==
  [i \in 1..Len(items) |->
     [price |-> products[items[i].product].price, quantity |-> items[i].quantity]]

\* this step sends a response: a request is answered as it arrives, or a
\* suspended handler finishes
Responds ==
  \/ nreq' = nreq + 1 /\ pc' = pc /\ last'.status # 0
  \/ \E s \in Slots : pc[s] # "idle" /\ pc'[s] = "idle"
\* this step sends the response of handler op
Answers(op) == Responds /\ last'.req.op = op
\* a checkout request of buyer u arrives in this step
CheckoutArrives(u) ==
  /\ nreq' = nreq + 1
  /\ \/ pc' = pc /\ last'.req.op = "checkout" /\ last'.req.user = u
     \/ \E s \in Slots : pc[s] = "idle" /\ pc'[s] = "co_create" /\ req'[s].user = u
\* a cart line that checkout's validation rejects, in the current store
LineFails(l) ==
  \/ ~products[l.product].exists
  \/ products[l.product].status # "active"
  \/ products[l.product].stock < l.quantity

\* C1: once calculateDeliveryFee has returned, the result is 0 for a
\* subtotal of 500 or more and the tenth of the subtotal, rounded down and
\* clamped to 10..50, below 500; 80 gives 10, 300 gives 30, 500 gives 0, and
\* the result is 0 or lies in 10..50.
C1_DeliveryFee ==
  feeOut # -1 =>
    /\ subtotalIn >= 500 => feeOut = 0
    /\ subtotalIn < 500 => feeOut = ClampedFee(subtotalIn)
    /\ subtotalIn = 80 => feeOut = 10
    /\ subtotalIn = 300 => feeOut = 30
    /\ subtotalIn = 500 => feeOut = 0
    /\ feeOut = 0 \/ (10 <= feeOut /\ feeOut <= 50)

C1_Witness == subtotalIn = 80 /\ feeOut = 10

\* C2: every 200 response of getCart carries subtotal = the sum of current
\* price * quantity over the buyer's cart lines, deliveryFee =
\* calculateDeliveryFee(subtotal) and total = subtotal + deliveryFee, whether
\* the buyer has no cart document, a cart with no lines or a cart with lines.
C2_CartTotal ==
  [][Answers("getCart") /\ last'.status = 200 =>
       LET subtotal == LineTotal(LiveLines(carts[last'.req.user].items), 1)
       IN  /\ last'.subtotal = subtotal
           /\ last'.deliveryFee = calculateDeliveryFee(subtotal)
           /\ last'.total = subtotal + calculateDeliveryFee(subtotal)]_vars

\* C3: a checkout that arrives while some line of the buyer's cart fails
\* validation (product missing, not active, or stock below the quantity) is
\* answered 400 in the same step and nothing is written: orders, products
\* and carts are unchanged and no handler stays suspended for it.
C3_ValidationAborts ==
  [][\A u \in Buyers :
       (CheckoutArrives(u) /\ \E i \in 1..Len(carts[u].items) : LineFails(carts[u].items[i]))
       => /\ Answers("checkout") /\ last'.req.user = u /\ last'.status = 400
          /\ UNCHANGED <<products, carts, orders, pc>>]_vars

\* a checkout was refused for a line that is not the first, after the first
\* line passed
C3_Witness ==
  /\ last.req.op = "checkout" /\ last.status = 400 /\ last.msg = "Insufficient stock"
  /\ LET items == carts[last.req.user].items
     IN  /\ Len(items) = 2
         /\ ~LineFails(items[1])
         /\ LineFails(items[2])
  /\ orders = <<>>

\* C4: a checkout that arrives for a buyer with no cart document, or with a
\* cart of zero lines, is answered 400 'Cart is empty' and writes nothing:
\* no order, no product change, no cart created or modified; the state it
\* leaves is the state it found, so a repetition meets the same case.
C4_EmptyCart ==
  [][\A u \in Buyers :
       (CheckoutArrives(u) /\ (~carts[u].exists \/ Len(carts[u].items) = 0))
       => /\ Answers("checkout") /\ last'.req.user = u
          /\ last'.status = 400 /\ last'.msg = "Cart is empty"
          /\ UNCHANGED <<products, carts, orders, pc>>]_vars

\* a buyer whose cart exists with zero lines was refused
C4_Witness ==
  /\ last.req.op = "checkout" /\ last.status = 400 /\ last.msg = "Cart is empty"
  /\ carts[last.req.user].exists
  /\ carts[last.req.user].items = <<>>

\* C5: when a checkout applies its stock update, every line of its order
\* leaves the referenced product's stock lower by exactly the line's quantity
\* and its totalSold higher by exactly the line's quantity, and the products
\* that are not in the order keep their stock and totalSold.
C5_StockDecrement ==
  [][\A s \in Slots :
       (pc[s] = "co_bulk" /\ pc'[s] = "co_clear") =>
         LET o == orders[loc[s].order]
         IN  /\ \A i \in 1..Len(o.items) :
                  LET p == o.items[i].product
                  IN  products[p].exists =>
                        /\ products'[p].stock = products[p].stock - o.items[i].quantity
                        /\ products'[p].totalSold = products[p].totalSold + o.items[i].quantity
             /\ \A p \in ProductIds :
                  (\A i \in 1..Len(o.items) : o.items[i].product # p) =>
                    /\ products'[p].stock = products[p].stock
                    /\ products'[p].totalSold = products[p].totalSold]_vars

\* the cart line of the end-to-end run: product p, quantity 2
RunLine(p) == [product |-> p, quantity |-> 2]
\* the product of the end-to-end run, as a document
RunProduct(d) ==
  d.exists /\ d.status = "active" /\ d.price = 100 /\ d.stock = 5

\* C6: with requests served one at a time and an active product P of price
\* 100 and stock 5: addItem(P, 2) into a cart without lines leaves the one
\* line {P, 2}; getCart on that cart answers 200 with subtotal 200,
\* deliveryFee 20, total 220; checkout of that cart passes validation and
\* answers 201 with an order of total 220, leaving P.stock = 3, P.status =
\* active and the buyer's cart in existence with items = [].
C6_EndToEnd ==
  [][\A u \in Buyers, p \in ProductIds :
       /\ \A s \in Slots :
            ( /\ pc[s] = "add_save" /\ pc'[s] = "idle"
              /\ req[s].user = u /\ req[s].product = p /\ req[s].quantity = 2
              /\ carts[u].items = <<>> )
            => last'.status = 200 /\ carts'[u].items = <<RunLine(p)>>
       /\ ( /\ Answers("getCart") /\ last'.req.user = u
            /\ carts[u].exists /\ carts[u].items = <<RunLine(p)>>
            /\ products[p].exists /\ products[p].price = 100 )
          => /\ last'.status = 200 /\ last'.subtotal = 200
             /\ last'.deliveryFee = 20 /\ last'.total = 220
       /\ ( /\ CheckoutArrives(u)
            /\ carts[u].items = <<RunLine(p)>> /\ RunProduct(products[p]) )
          => \E s \in Slots : pc'[s] = "co_create" /\ req'[s].user = u
       /\ \A s \in Slots :
            ( /\ pc[s] = "co_clear" /\ pc'[s] = "idle" /\ req[s].user = u
              /\ Len(loc[s].items) = 1 /\ loc[s].items[1].product = p
              /\ loc[s].items[1].quantity = 2 /\ RunProduct(loc[s].items[1].doc) )
            => /\ last'.status = 201 /\ last'.total = 220
               /\ orders[last'.order].total = 220
               /\ orders[last'.order].user = u
               /\ products'[p].stock = 3 /\ products'[p].status = "active"
               /\ carts'[u].exists /\ carts'[u].items = <<>>]_vars

\* the run has ended: the order of total 220 is stored, P has 3 left
C6_Witness ==
  /\ serial
  /\ last.req.op = "checkout" /\ last.status = 201 /\ last.total = 220
  /\ last.order = 1 /\ Len(orders) = 1
  /\ orders[1].total = 220 /\ orders[1].subtotal = 200 /\ orders[1].deliveryFee = 20
  /\ orders[1].items = <<[product |-> "p1", quantity |-> 2, price |-> 100]>>
  /\ products["p1"].stock = 3 /\ products["p1"].status = "active"
  /\ carts[last.req.user].exists /\ carts[last.req.user].items = <<>>

\* an order's sums: subtotal over its own lines, fee of the subtotal, total
OrderSums(o) ==
  /\ o.subtotal = LineTotal(o.items, 1)
  /\ o.deliveryFee = calculateDeliveryFee(o.subtotal)
  /\ o.total = o.subtotal + o.deliveryFee

\* C7: orders come only from Order.create of a checkout; the order created
\* has status placed, one line per cart line read by that checkout with the
\* line's product and quantity and the price read from the product, and at
\* least one line; every stored order has at least one line, subtotal = sum
\* of price * quantity over its lines, deliveryFee =
\* calculateDeliveryFee(subtotal) and total = subtotal + deliveryFee.
C7_OrderShape ==
  [][/\ Len(orders') # Len(orders) =>
          \E s \in Slots :
            /\ pc[s] = "co_create" /\ pc'[s] = "co_bulk"
            /\ Len(orders') = Len(orders) + 1
            /\ LET o == orders'[Len(orders')]
                   read == loc[s].items
               IN  /\ o.status = "placed"
                   /\ o.user = req[s].user
                   /\ Len(o.items) = Len(read)
                   /\ \A i \in 1..Len(read) :
                        o.items[i] = [product |-> read[i].product,
                                      quantity |-> read[i].quantity,
                                      price |-> read[i].doc.price]
     /\ \A i \in 1..Len(orders') :
          Len(orders'[i].items) >= 1 /\ OrderSums(orders'[i])]_vars

\* an order of two lines is stored
C7_Witness ==
  \E i \in 1..Len(orders) :
    /\ Len(orders[i].items) = 2
    /\ orders[i].items[1].product # orders[i].items[2].product
    /\ orders[i].status = "placed"

\* C8: a checkout that answers 201, and that read the cart while the totals
\* of the buyer's last getCart were still current (no write to the cart and
\* no price change or deletion of a product since that getCart), stored an
\* order whose subtotal, deliveryFee and total are the ones getCart returned.
\* The order has these totals from the step that stores it.
C8_QuoteCharged ==
  [][\A s \in Slots :
       /\ ( /\ pc[s] = "co_clear" /\ pc'[s] = "idle"
            /\ last'.status = 201 /\ loc[s].quote.valid )
          => LET o == orders[last'.order]
             IN  /\ o.subtotal = loc[s].quote.subtotal
                 /\ o.deliveryFee = loc[s].quote.deliveryFee
                 /\ o.total = loc[s].quote.total
       /\ ( /\ pc[s] = "co_create" /\ pc'[s] = "co_bulk" /\ loc[s].quote.valid )
          => LET o == orders'[loc'[s].order]
             IN  /\ o.subtotal = loc[s].quote.subtotal
                 /\ o.deliveryFee = loc[s].quote.deliveryFee
                 /\ o.total = loc[s].quote.total]_vars

\* a checkout that read the cart under current getCart totals has stored its
\* order and is about to clear the unchanged cart
C8_Witness ==
  \E s \in Slots :
    /\ pc[s] = "co_clear" /\ loc[s].quote.valid
    /\ carts[req[s].user].v = loc[s].v
    /\ orders[loc[s].order].total = loc[s].quote.total
    /\ loc[s].quote.total > 0

\* C9: no step changes a stored order's user, lines, subtotal, deliveryFee
\* or total, and no step removes an order.
C9_OrderFrozen ==
  [][\A i \in 1..Len(orders) :
       /\ i <= Len(orders')
       /\ orders'[i].user = orders[i].user
       /\ orders'[i].items = orders[i].items
       /\ orders'[i].subtotal = orders[i].subtotal
       /\ orders'[i].deliveryFee = orders[i].deliveryFee
       /\ orders'[i].total = orders[i].total]_vars

\* a stored order keeps a price its product no longer has
C9_Witness ==
  \E i \in 1..Len(orders) :
    LET l == orders[i].items[1]
    IN  /\ products[l.product].exists
        /\ products[l.product].price # l.price
        /\ OrderSums(orders[i])

\* C10: getOrderById answers 404 for an id no order has; for a stored order
\* it answers 200 with the order to the buyer who placed it and to an
\* admin, and 403 to every other requester.
C10_OrderAccess ==
  [][Answers("getOrderById") =>
       LET id == last'.req.order
           u == last'.req.user
       IN  IF id > Len(orders) THEN last'.status = 404
           ELSE IF orders[id].user = u \/ role(u) = "admin"
           THEN last'.status = 200 /\ last'.order = id
           ELSE last'.status = 403]_vars

\* C11: the result of getFarmerOrders(F) holds an order exactly when at
\* least one of the order's lines references a product that still exists
\* and whose farmer is F: an order with lines of several farmers is in the
\* result of each of them, an order with none of F's products is in none.
C11_FarmerOrders ==
  [][Answers("getFarmerOrders") =>
       LET F == last'.req.user
       IN  /\ last'.status = 200
           /\ last'.orders \subseteq 1..Len(orders)
           /\ \A i \in 1..Len(orders) :
                i \in last'.orders <=>
                  \E k \in 1..Len(orders[i].items) :
                    /\ products[orders[i].items[k].product].exists
                    /\ products[orders[i].items[k].product].farmer = F]_vars

\* a farmer was shown an order that also has a line of another farmer
C11_Witness ==
  /\ last.req.op = "getFarmerOrders" /\ last.status = 200
  /\ \E i \in last.orders :
       /\ \E k \in 1..Len(orders[i].items) :
            products[orders[i].items[k].product].farmer = last.req.user
       /\ \E k \in 1..Len(orders[i].items) :
            /\ products[orders[i].items[k].product].exists
            /\ products[orders[i].items[k].product].farmer # last.req.user

\* C12: in every reachable state every product with stock <= 0 has
\* status = out_of_stock.
C12_StockStatus ==
  \A p \in ProductIds :
    (products[p].exists /\ products[p].stock <= 0) => products[p].status = "out_of_stock"

\* C13: in every reachable state every product has totalValue = price * stock.
C13_TotalValue ==
  \A p \in ProductIds :
    products[p].exists => products[p].totalValue = products[p].price * products[p].stock

\* this step is the answer of an admin's product action
AdminProductStep == Answers("approveProduct") \/ Answers("toggleProductStatus")

\* C14: a step that is not an admin's product action makes a product active
\* only when the product was out_of_stock and has stock > 0 afterwards; so a
\* product an admin set to inactive is not put back to active by
\* updateProduct, by getProduct's save or by a checkout, whenever the
\* checkout read the product.
C14_ActiveOnlyFromOutOfStock ==
  [][\A p \in ProductIds :
       ( /\ ~AdminProductStep
         /\ products[p].exists /\ products'[p].exists
         /\ products[p].status # "active" /\ products'[p].status = "active" )
       => products[p].status = "out_of_stock" /\ products'[p].stock > 0]_vars

\* the lines of order i that reference product p
LinesOn(i, p) == {k \in 1..Len(orders[i].items) : orders[i].items[k].product = p}

\* C15: checkout compares a line's quantity with the stock it read and with
\* nothing else, and its stock update subtracts without a condition: a
\* checkout that arrives while every line of the cart passes validation goes
\* on to create its order whatever other checkouts are suspended, and a
\* stock update for a line whose quantity exceeds the stock then stored
\* leaves that stock below 0.  So two buyers' concurrent checkouts of one
\* product oversell it.
C15_Oversell ==
  [][/\ \A u \in Buyers :
          ( /\ CheckoutArrives(u)
            /\ carts[u].exists /\ Len(carts[u].items) > 0
            /\ \A k \in 1..Len(carts[u].items) : ~LineFails(carts[u].items[k]) )
          => \E s \in Slots : pc[s] = "idle" /\ pc'[s] = "co_create" /\ req'[s].user = u
     /\ \A s \in Slots :
          (pc[s] = "co_bulk" /\ pc'[s] = "co_clear") =>
            \A k \in 1..Len(loc[s].items) :
              LET l == loc[s].items[k]
              IN  (products[l.product].exists /\ products[l.product].stock < l.quantity)
                  => products'[l.product].stock < 0]_vars

\* two buyers hold an order for the same product, both stock updates were
\* applied, and the stock is below 0
C15_Witness ==
  \E p \in ProductIds, i, j \in 1..Len(orders) :
    /\ orders[i].user # orders[j].user
    /\ LinesOn(i, p) # {} /\ LinesOn(j, p) # {}
    /\ products[p].exists /\ products[p].stock < 0
    /\ products[p].totalSold = LineTotal([k \in 1..Len(orders[i].items) |->
                                           [price |-> 1, quantity |-> orders[i].items[k].quantity]], 1)
                               + LineTotal([k \in 1..Len(orders[j].items) |->
                                           [price |-> 1, quantity |-> orders[j].items[k].quantity]], 1)
    /\ Len(orders[i].items) = 1 /\ Len(orders[j].items) = 1
    /\ \A s \in Slots : pc[s] \notin {"co_create", "co_bulk"}

\* C16: a checkout that fails after its order was created and before its
\* stock update leaves the order recorded, every product and every cart as
\* they were, and no handler that still refers to the order; later, stock
\* and totalSold change only by the stock update of a running checkout
\* for its own lines or by updateProduct, so nothing applies the missing
\* update.  A checkout that fails before the order creation leaves no order.
C16_FailureWindow ==
  [][/\ \A s \in Slots :
          (pc[s] = "co_bulk" /\ pc'[s] = "idle") =>
            /\ last'.req.op = "checkout" /\ last'.status = 500
            /\ loc[s].order \in 1..Len(orders')
            /\ orders'[loc[s].order].user = req[s].user
            /\ UNCHANGED <<products, carts, orders>>
            /\ \A t \in Slots : pc'[t] # "idle" => loc'[t].order # loc[s].order
     /\ \A s \in Slots :
          (pc[s] = "co_create" /\ pc'[s] = "idle") =>
            /\ last'.req.op = "checkout" /\ last'.status = 500
            /\ UNCHANGED <<products, carts, orders>>
     /\ \A p \in ProductIds :
          ( /\ products[p].exists /\ products'[p].exists
            /\ \/ products'[p].stock # products[p].stock
               \/ products'[p].totalSold # products[p].totalSold )
          => \/ Answers("updateProduct") /\ last'.req.product = p
             \/ \E s \in Slots :
                  /\ pc[s] = "co_bulk" /\ pc'[s] = "co_clear"
                  /\ LinesOn(loc[s].order, p) # {}]_vars

\* a checkout was answered 500 after its order was created: the order is
\* stored, the product it names has sold nothing and the cart has its lines
C16_Witness ==
  /\ last.req.op = "checkout" /\ last.status = 500
  /\ \A s \in Slots : pc[s] = "idle"
  /\ Len(orders) = 1 /\ orders[1].user = last.req.user
  /\ \A k \in 1..Len(orders[1].items) :
       /\ products[orders[1].items[k].product].exists
       /\ products[orders[1].items[k].product].totalSold = 0
  /\ Len(carts[last.req.user].items) = Len(orders[1].items)

\* an updateOrderStatus request arrives in this step
UpdateArrives == nreq' = nreq + 1 /\ pc' = pc /\ last'.req.op = "updateOrderStatus"
\* the request that arrives in a step of UpdateArrives
UpdateRequest == last'.req

\* C17: an admin's updateOrderStatus is answered: for an existing order and
\* a status among processing, in_transit, delivered, cancelled with 200 and
\* the order's status stored as sent; for an existing order and any other
\* status with 400 and the orders unchanged; for an id no order has, 404.
C17_UpdateOrderStatus ==
  [][(UpdateArrives /\ role(UpdateRequest.user) = "admin") =>
       LET rq == UpdateRequest
       IN  /\ Answers("updateOrderStatus")
           /\ IF rq.order > Len(orders)
              THEN rq.status \in {"processing", "in_transit", "delivered", "cancelled"}
                     => last'.status = 404
              ELSE IF rq.status \in {"processing", "in_transit", "delivered", "cancelled"}
              THEN last'.status = 200 /\ orders'[rq.order].status = rq.status
              ELSE last'.status = 400 /\ orders' = orders]_vars

\* C18: an order comes into existence only by the Order.create of a
\* checkout whose cart lines all passed validation when they were read; no
\* step removes an order; and an order's status changes only in a step that
\* answers updateOrderStatus for a requester of role admin.
C18_OrderLifecycle ==
  [][/\ Len(orders') >= Len(orders)
     /\ Len(orders') # Len(orders) =>
          \E s \in Slots :
            /\ pc[s] = "co_create" /\ pc'[s] = "co_bulk"
            /\ Len(orders') = Len(orders) + 1
            /\ Len(loc[s].items) >= 1
            /\ \A k \in 1..Len(loc[s].items) :
                 /\ loc[s].items[k].doc.exists
                 /\ loc[s].items[k].doc.status = "active"
                 /\ loc[s].items[k].doc.stock >= loc[s].items[k].quantity
     /\ \A i \in 1..Len(orders) :
          orders'[i].status # orders[i].status =>
            /\ Answers("updateOrderStatus")
            /\ role(last'.req.user) = "admin"
            /\ last'.req.order = i]_vars

\* a buyer's updateOrderStatus for a stored order has arrived, and the
\* order's status is the one it was created with
C18_Witness ==
  /\ last.req.op = "updateOrderStatus" /\ role(last.req.user) = "buyer"
  /\ last.req.status = "delivered"
  /\ last.req.order \in 1..Len(orders)
  /\ orders[last.req.order].status = "placed"

\* an addToCart request of user u for product p arrives in this step
AddArrives(u, p) ==
  /\ nreq' = nreq + 1
  /\ \/ /\ pc' = pc /\ last'.req.op = "addToCart"
        /\ last'.req.user = u /\ last'.req.product = p
     \/ \E s \in Slots : /\ pc[s] = "idle" /\ pc'[s] = "add_save"
                         /\ req'[s].user = u /\ req'[s].product = p

\* C19: an addToCart that arrives for a product that does not exist or is
\* not active is answered 404 in that step and writes nothing: no cart is
\* created, no cart, product or order changes, no handler stays suspended.
C19_AddItemNotFound ==
  [][\A u \in Buyers, p \in ProductIds :
       (AddArrives(u, p) /\ (~products[p].exists \/ products[p].status # "active"))
       => /\ Answers("addToCart") /\ last'.status = 404
          /\ UNCHANGED <<products, carts, orders, pc>>]_vars

\* a buyer without a cart document was refused an existing product that is
\* not active, and still has no cart document
C19_Witness ==
  /\ last.req.op = "addToCart" /\ last.status = 404
  /\ products[last.req.product].exists
  /\ products[last.req.product].status # "active"
  /\ ~carts[last.req.user].exists

\* C20: an addToCart(u, P, q) that answers 200 changes the stored cart of u
\* in exactly one way: where the cart has a line for P, that line's quantity
\* grows by q and no line is added; where it has none, the line {P, q} is
\* appended; every other line keeps product, quantity and place.
C20_AddItemEffect ==
  [][\A s \in Slots :
       (pc[s] = "add_save" /\ pc'[s] = "idle" /\ last'.status = 200) =>
         LET u == req[s].user
             items == carts[u].items
             i == FindLine(items, req[s].product, 1)
         IN  carts'[u].items =
               IF i # 0 THEN [items EXCEPT ![i].quantity = @ + req[s].quantity]
               ELSE Append(items, [product |-> req[s].product,
                                   quantity |-> req[s].quantity])]_vars

C22_QuantityAtLeastOne ==
  /\ \A u \in Buyers : \A k \in 1..Len(carts[u].items) : carts[u].items[k].quantity >= 1
  /\ \A s \in Slots :
       pc[s] \in {"co_create", "co_bulk", "co_clear"} =>
         \A k \in 1..Len(loc[s].items) : loc[s].items[k].quantity >= 1

\* an addToCart with a negative quantity for a product whose line had
\* quantity 1 was refused, and the line is as it was
C22_Witness ==
  /\ last.req.op = "addToCart" /\ last.req.quantity < 0 /\ last.status = 500
  /\ \E k \in 1..Len(carts[last.req.user].items) :
       /\ carts[last.req.user].items[k].product = last.req.product
       /\ carts[last.req.user].items[k].quantity = 1

\* a removeFromCart request of user u for product p arrives in this step
RemoveArrives(u, p) ==
  /\ nreq' = nreq + 1
  /\ \/ /\ pc' = pc /\ last'.req.op = "removeFromCart"
        /\ last'.req.user = u /\ last'.req.product = p
     \/ \E s \in Slots : /\ pc[s] = "idle" /\ pc'[s] = "rm_save"
                         /\ req'[s].user = u /\ req'[s].product = p

\* C23: a removeFromCart(u, P) that arrives while u has no cart is answered
\* 404 in that step and writes nothing; one that arrives while u has a cart
\* goes on to its save and is then answered 200: where the cart it read has
\* no line for P nothing is written; otherwise the stored cart of u holds
\* the lines it held before without those for P, in the same order; every
\* other cart is unchanged.
C23_RemoveItem ==
  [][/\ \A u \in Buyers, p \in ProductIds :
          RemoveArrives(u, p) =>
            IF ~carts[u].exists
            THEN /\ Answers("removeFromCart") /\ last'.status = 404
                 /\ UNCHANGED <<products, carts, orders, pc>>
            ELSE \E s \in Slots : pc[s] = "idle" /\ pc'[s] = "rm_save"
     /\ \A s \in Slots :
          (pc[s] = "rm_save" /\ pc'[s] = "idle") =>
            /\ last'.status = 200
            /\ IF FindLine(loc[s].items, req[s].product, 1) = 0
               THEN carts' = carts
               ELSE carts'[req[s].user].items =
                      FilterOut(carts[req[s].user].items, req[s].product)
            /\ \A b \in Buyers \ {req[s].user} : carts'[b] = carts[b]]_vars

\* C24: a checkout that answers 201 leaves the buyer's cart document stored
\* with zero lines; no step deletes a cart document; a checkout that arrives
\* while the buyer's cart has zero lines is answered 400 in that step and
\* stores no order; and an addToCart that arrives while the buyer has a cart
\* works on that document and creates none.
C24_CartClearedNotDeleted ==
  [][/\ \A s \in Slots :
          (pc[s] = "co_clear" /\ pc'[s] = "idle" /\ last'.status = 201) =>
            /\ carts'[req[s].user].exists /\ carts'[req[s].user].n = 1
            /\ carts'[req[s].user].items = <<>>
     /\ \A u \in Buyers :
          carts[u].exists => carts'[u].exists /\ carts'[u].n = carts[u].n
     /\ \A u \in Buyers :
          (CheckoutArrives(u) /\ carts[u].exists /\ carts[u].items = <<>>) =>
            /\ Answers("checkout") /\ last'.status = 400
            /\ orders' = orders
     /\ \A u \in Buyers, p \in ProductIds :
          (AddArrives(u, p) /\ carts[u].exists) => carts'[u] = carts[u]]_vars

\* a buyer whose checkout stored an order and emptied the cart has checked
\* out again and was answered 400: still one order, the cart stored, empty
C24_Witness ==
  /\ last.req.op = "checkout" /\ last.status = 400
  /\ \A s \in Slots : pc[s] = "idle"
  /\ Len(orders) = 1 /\ orders[1].user = last.req.user
  /\ carts[last.req.user].exists /\ carts[last.req.user].items = <<>>
  /\ carts[last.req.user].v = 2

\* C25: in every reachable state a product that is active has had its
\* status written by an admin's approveProduct or toggleProductStatus: no
\* createProduct, updateProduct or product view of the farmer's makes a
\* product active before that.
C25_ActiveOnlyAfterApproval ==
  \A p \in ProductIds :
    (products[p].exists /\ products[p].status = "active") => products[p].adminSet

\* slot s runs a checkout of buyer u that has stored its order
Ordered(s, u) ==
  /\ req[s].op = "checkout" /\ req[s].user = u
  /\ pc[s] \in {"co_bulk", "co_clear"}

\* C26: of two checkouts of one buyer that run concurrently on the same
\* cart (both read it before either emptied it), at most one stores an
\* order and goes on to the stock update: in no reachable state have both
\* stored their order.
C26_OneOrderPerCart ==
  \A u \in Buyers :
    ~ \E s, t \in Slots :
        /\ s # t /\ Ordered(s, u) /\ Ordered(t, u)
        /\ loc[s].v = loc[t].v /\ loc[s].items = loc[t].items

\* C27: in every reachable state no stored cart holds two lines for the
\* same product.
C27_NoDuplicateLines ==
  \A u \in Buyers : \A i, j \in 1..Len(carts[u].items) :
    carts[u].items[i].product = carts[u].items[j].product => i = j

\* the endpoints of the admin order router
AdminOrderOps == {"getAllOrders", "exportOrders", "updateOrderStatus"}

\* the latest request the server dealt with is an admin's request to an
\* admin order endpoint, and its middleware chain ended without a response
AdminUnanswered ==
  /\ last.req.op \in AdminOrderOps /\ role(last.req.user) = "admin"
  /\ last.status = 0

\* C28: a request of an authenticated admin to an admin order endpoint
\* passes the middleware chain, reaches its handler and is eventually
\* answered: an admin's request left without a response by the chain leads
\* to a response.
C28_AdminOrdersAnswered == AdminUnanswered ~> (last.status # 0)

\* C30: a getProduct that answers 200 leaves the product with views one
\* higher than stored before its save and with every other field as it was
\* (so two concurrent getProduct requests raise views by 2), and changes no
\* other product.
C30_GetProductEffect ==
  [][\A s \in Slots :
       (pc[s] = "gp_save" /\ pc'[s] = "idle" /\ last'.status = 200) =>
         products' = [products EXCEPT ![req[s].product].views = @ + 1]]_vars

\* C29: no step sends a token for an account of role farmer that is not
\* approved, neither register nor login; and a request to a farmer-only
\* route is let through to its handler only for an approved account.
C29_NoTokenBeforeApproval ==
  [][/\ (nreq' = nreq + 1 /\ last'.token) =>
          LET user == accounts'[last'.req.user]
          IN  ~(user.role = "farmer" /\ ~user.isApproved)
     /\ (nreq' = nreq + 1 /\ last'.req.op = "getFarmerProducts" /\ last'.status = 200) =>
          accounts[last'.req.user].isApproved]_vars

====
